---- MODULE Spec2Model ----
(***************************************************************************)
(* Model of the generation / refinement / analysis workflow:               *)
(*   - the Gemini service functions bringToLife, refineApp, analyzeCode    *)
(*     (services/gemini.ts), with the fence-stripping cleanup computed     *)
(*     character by character as the three chained String.replace calls;   *)
(*   - the LivePreview component's state and handlers                      *)
(*     (components/LivePreview.tsx);                                       *)
(*   - the parent that owns the current Creation and serves onRefine /     *)
(*     onReset / onGenerate, which is not among the sources and is         *)
(*     modelled from the design text (CreationStore, InteractionController)*)
(*   - the InputArea component's file and prompt handlers                  *)
(*     (components/InputArea.tsx);                                         *)
(*   - the artifact export and the PdfRenderer effect of LivePreview.      *)
(* Text is a sequence of one-character strings.                            *)
(***************************************************************************)
EXTENDS Naturals, Sequences, FiniteSets, TLC

VARIABLES
    \* ---- one invocation of a service function (services/gemini.ts)
    svcOp,      \* "none" | "bringToLife" | "refineApp" | "analyzeCode"
    svcPc,      \* "idle" | "awaiting" | "returned" | "raised"
    svcHtml,    \* the currentHtml / code argument of the invocation
    svcCalls,   \* remote generateContent calls made by the invocation
    svcResp,    \* the remote outcome the invocation observed
    svcRet,     \* how the invocation ended: a value, or the error thrown
    svcArgs,    \* the prompt, fileBase64, mimeType and instruction arguments
    svcParts,   \* contents.parts of the remote call
    \* ---- the parent of LivePreview (not among the sources)
    creation,       \* the current Creation, or NoCreation
    creationSeq,    \* how many Creation objects have been stored so far
    isGenerating,   \* a generate request is in flight
    genPending,     \* the generate request in flight (at most one)
    refPending,     \* the onRefine calls in flight
    \* ---- InputArea (components/InputArea.tsx lines 46-48)
    prompt,         \* the text typed into the textarea
    isDragging,     \* a drag is over the drop zone
    disabled,       \* the disabled prop
    \* ---- LivePreview state (components/LivePreview.tsx lines 151-159)
    showSplitView,
    isAnalyzing,
    analysisResult,
    showAnalysis,
    refinementPrompt,
    isRefining,
    \* ---- the analyzeCode calls LivePreview has in flight
    anaPending,
    \* ---- what handleExport handed to the browser
    download,       \* the name of the file downloaded last, empty when none was
    \* ---- PdfRenderer (components/LivePreview.tsx lines 55-124)
    pdfUrl,         \* 0 when not mounted, else the run started for the dataUrl prop
    pdfRuns,        \* the renderPdf runs started so far, one per effect run
    pdfCanvas,      \* the canvas of the mounted component: which mount it
                    \* belongs to, whose size it has, whose page is drawn
    pdfLoading,     \* the loading state
    pdfError,       \* the error state: "none" for null
    \* ---- bookkeeping for the properties
    analyzeCalls,   \* analyzeCode calls issued since the creation prop last changed
    shownSince,     \* the analysis panel was opened since the creation prop last changed
    lastEvent       \* what the handler that ran last did; "preview" for the toggles,
                    \* the typing and the analysis completion of LivePreview

svcVars ==
    <<svcOp, svcPc, svcHtml, svcCalls, svcResp, svcRet, svcArgs, svcParts>>

appVars == <<creation, creationSeq, isGenerating, genPending, refPending>>

previewVars ==
    <<showSplitView, isAnalyzing, analysisResult, showAnalysis,
      refinementPrompt, isRefining, anaPending>>

ghostVars == <<analyzeCalls, shownSince, lastEvent>>

inputVars == <<prompt, isDragging, disabled>>

exportVars == <<download>>

pdfVars == <<pdfUrl, pdfRuns, pdfCanvas, pdfLoading, pdfError>>

uiVars == <<appVars, inputVars, previewVars, ghostVars, exportVars, pdfVars>>

\* what the handlers of LivePreview and of the parent leave alone
otherVars == <<svcVars, inputVars, exportVars, pdfVars>>

vars == <<svcVars, uiVars>>

----------------------------------------------------------------------------
(* Bounds *)

\* a remote response text is a concatenation of at most MaxPieces pieces
MaxPieces == 3
\* a currentHtml / code argument is a concatenation of at most MaxHtmlPieces pieces
MaxHtmlPieces == 2
\* the parent stores at most MaxCreations Creation objects in a run: a
\* generate request starts while the Creations stored and the requests in
\* flight stay below it, a refine request starts while the Creations stored
\* are below it, and a request that would store one more does not settle
\* with success
MaxCreations == 3
\* the text inside a fenced block is a concatenation of at most MaxInnerPieces pieces
MaxInnerPieces == 2
\* a Creation name given to the export has at most MaxNameLen characters
MaxNameLen == 2
\* PdfRenderer starts at most MaxRenders runs of renderPdf
MaxRenders == 3

----------------------------------------------------------------------------
(* Text *)

\* the grave accent, U+0060, which the lexer does not take inside a string
Backtick == "GRAVE"

\* the markdown code fence: three grave accents
Fence == << Backtick, Backtick, Backtick >>
HtmlTag == << "h", "t", "m", "l" >>

\* the building blocks of the texts the model enumerates
Pieces == { Fence, HtmlTag, << "\n" >>, << "x" >>, << Backtick >> }

RECURSIVE TextsUpTo(_)
TextsUpTo(n) ==
    IF n = 0 THEN { << >> }
    ELSE LET shorter == TextsUpTo(n - 1)
         IN  shorter \cup { p \o t : p \in Pieces, t \in shorter }

Texts == TextsUpTo(MaxPieces)
Htmls == TextsUpTo(MaxHtmlPieces)

\* a fenced block with the html language tag around an inner text, and what
\* follows the closing fence
Inners == TextsUpTo(MaxInnerPieces)
ClosingTails == { << >>, << "\n" >> }
FencedBlock(inner, tail) == Fence \o HtmlTag \o inner \o Fence \o tail
FencedBlocks == { FencedBlock(inner, tail) : inner \in Inners, tail \in ClosingTails }

FailedToGenerate == <<
    "<", "!", "-", "-", " ", "F", "a", "i", "l", "e", "d", " ", "t", "o",
    " ", "g", "e", "n", "e", "r", "a", "t", "e", " ", "c", "o", "n", "t",
    "e", "n", "t", " ", "-", "-", ">" >>
NoAnalysisGenerated == <<
    "N", "o", " ", "a", "n", "a", "l", "y", "s", "i", "s", " ", "g", "e",
    "n", "e", "r", "a", "t", "e", "d", "." >>
FailedToAnalyze == <<
    "F", "a", "i", "l", "e", "d", " ", "t", "o", " ", "a", "n", "a", "l",
    "y", "z", "e", " ", "c", "o", "d", "e", ".", " ", "P", "l", "e", "a",
    "s", "e", " ", "t", "r", "y", " ", "a", "g", "a", "i", "n", "." >>

FailedToRetrieve == <<
    "F", "a", "i", "l", "e", "d", " ", "t", "o", " ", "r", "e", "t", "r",
    "i", "e", "v", "e", " ", "a", "n", "a", "l", "y", "s", "i", "s", ".",
    " ", "P", "l", "e", "a", "s", "e", " ", "t", "r", "y", " ", "a", "g",
    "a", "i", "n", "." >>

\* defaultFilePrompt, bringToLife line 62
DefaultFilePrompt == <<
    "A", "n", "a", "l", "y", "z", "e", " ", "t", "h", "i", "s", " ", "i",
    "m", "a", "g", "e", "/", "d", "o", "c", "u", "m", "e", "n", "t", ".",
    " ", "D", "e", "t", "e", "c", "t", " ", "w", "h", "a", "t", " ", "f",
    "u", "n", "c", "t", "i", "o", "n", "a", "l", "i", "t", "y", " ", "i",
    "s", " ", "i", "m", "p", "l", "i", "e", "d", ".", " ", "I", "f", " ",
    "i", "t", " ", "i", "s", " ", "a", " ", "r", "e", "a", "l", "-", "w",
    "o", "r", "l", "d", " ", "o", "b", "j", "e", "c", "t", " ", "(", "l",
    "i", "k", "e", " ", "a", " ", "d", "e", "s", "k", ")", ",", " ", "g",
    "a", "m", "i", "f", "y", " ", "i", "t", " ", "(", "e", ".", "g", ".",
    ",", " ", "a", " ", "c", "l", "e", "a", "n", "u", "p", " ", "g", "a",
    "m", "e", ")", ".", " ", "B", "u", "i", "l", "d", " ", "a", " ", "f",
    "u", "l", "l", "y", " ", "i", "n", "t", "e", "r", "a", "c", "t", "i",
    "v", "e", " ", "w", "e", "b", " ", "a", "p", "p", ".", " ", "I", "M",
    "P", "O", "R", "T", "A", "N", "T", ":", " ", "D", "o", " ", "N", "O",
    "T", " ", "u", "s", "e", " ", "e", "x", "t", "e", "r", "n", "a", "l",
    " ", "i", "m", "a", "g", "e", " ", "U", "R", "L", "s", ".", " ", "R",
    "e", "c", "r", "e", "a", "t", "e", " ", "t", "h", "e", " ", "v", "i",
    "s", "u", "a", "l", "s", " ", "u", "s", "i", "n", "g", " ", "C", "S",
    "S", ",", " ", "S", "V", "G", "s", ",", " ", "o", "r", " ", "E", "m",
    "o", "j", "i", "s", "." >>

\* what line 65 puts between the default instruction and the prompt
UserRequestContext == <<
    "\n", "\n", "U", "S", "E", "R", " ", "R", "E", "Q", "U", "E", "S", "T",
    " ", "/", " ", "C", "O", "N", "T", "E", "X", "T", ":", " " >>

\* the canned request of line 68
DemoRequest == <<
    "C", "r", "e", "a", "t", "e", " ", "a", " ", "d", "e", "m", "o", " ",
    "a", "p", "p", " ", "t", "h", "a", "t", " ", "s", "h", "o", "w", "s",
    " ", "o", "f", "f", " ", "y", "o", "u", "r", " ", "c", "a", "p", "a",
    "b", "i", "l", "i", "t", "i", "e", "s", "." >>

\* the first part of refineApp, line 114
CurrentCodePreamble == <<
    "H", "e", "r", "e", " ", "i", "s", " ", "t", "h", "e", " ", "c", "u",
    "r", "r", "e", "n", "t", " ", "e", "x", "i", "s", "t", "i", "n", "g",
    " ", "c", "o", "d", "e", ":" >>

\* the template of line 116, before the instruction
UserInstructionPrefix == <<
    "\n", "\n", "U", "S", "E", "R", " ", "I", "N", "S", "T", "R", "U", "C",
    "T", "I", "O", "N", ":", " " >>

\* the template of line 116, after the instruction
ReturnFullSuffix == <<
    "\n", "\n", "R", "e", "t", "u", "r", "n", " ", "t", "h", "e", " ", "f",
    "u", "l", "l", " ", "u", "p", "d", "a", "t", "e", "d", " ", "H", "T",
    "M", "L", " ", "f", "i", "l", "e", "." >>

\* the first part of analyzeCode, line 141
AnalyzePreamble == <<
    "P", "l", "e", "a", "s", "e", " ", "a", "n", "a", "l", "y", "z", "e",
    " ", "t", "h", "i", "s", " ", "c", "o", "d", "e", " ", "a", "n", "d",
    " ", "s", "u", "g", "g", "e", "s", "t", " ", "i", "m", "p", "r", "o",
    "v", "e", "m", "e", "n", "t", "s", ":" >>

\* the regular expression class \s, restricted to the characters of the model
IsSpace(c) == c \in { " ", "\n" }

StartsWith(s, p) == Len(s) >= Len(p) /\ SubSeq(s, 1, Len(p)) = p
EndsWith(s, p) == Len(s) >= Len(p) /\ SubSeq(s, Len(s) - Len(p) + 1, Len(s)) = p

\* the greedy \s* that follows an opener
RECURSIVE DropSpaces(_)
DropSpaces(s) ==
    IF s # << >> /\ IsSpace(Head(s)) THEN DropSpaces(Tail(s)) ELSE s

RECURSIVE DropTrailingSpaces(_)
DropTrailingSpaces(s) ==
    IF s # << >> /\ IsSpace(s[Len(s)])
    THEN DropTrailingSpaces(SubSeq(s, 1, Len(s) - 1))
    ELSE s

\* String.prototype.trim
Trim(s) == DropTrailingSpaces(DropSpaces(s))

\* replace(/^<opener>\s*/, ""): an opener at the start goes, with the spaces after it
StripOpener(s, opener) ==
    IF StartsWith(s, opener)
    THEN DropSpaces(SubSeq(s, Len(opener) + 1, Len(s)))
    ELSE s

\* first replace of lines 99 and 127: the opener is the fence followed by html
StripHtmlFence(s) == StripOpener(s, Fence \o HtmlTag)

\* second replace of lines 99 and 127: the opener is the bare fence
StripBareFence(s) == StripOpener(s, Fence)

\* a slip of the closing pattern: one grave accent at the end in place of three
StripTrailingBacktick(s) ==
    IF EndsWith(s, << Backtick >>) THEN SubSeq(s, 1, Len(s) - 1) ELSE s

\* third replace of lines 99 and 127: a fence at the very end of the text goes
\* ($ without the m flag matches at the end of the text only)
StripTrailingFence(s) ==
    IF EndsWith(s, Fence) THEN SubSeq(s, 1, Len(s) - Len(Fence)) ELSE s

\* the three chained replace calls of lines 99 and 127
Cleanup(s) == StripTrailingFence(StripBareFence(StripHtmlFence(s)))

----------------------------------------------------------------------------
(* Remote outcomes and what the service functions make of them *)

\* the remote call settles with a text, with no text at all, or with an error
TextResponse(t) == [kind |-> "text", text |-> t]
AbsentResponse == [kind |-> "absent", text |-> << >>]
ErrorResponse == [kind |-> "error", text |-> << >>]
NoResponse == [kind |-> "none", text |-> << >>]

Responses ==
    { TextResponse(t) : t \in Texts \cup FencedBlocks }
        \cup { AbsentResponse, ErrorResponse }

\* JavaScript a || b on strings: the empty (or absent) text is falsy
OrElse(text, fallback) == IF text = << >> THEN fallback ELSE text

\* how an invocation ends: with a value, or with the error thrown to the caller
NoValue == [has |-> FALSE, raised |-> FALSE, text |-> << >>]
Raised == [has |-> FALSE, raised |-> TRUE, text |-> << >>]
Value(t) == [has |-> TRUE, raised |-> FALSE, text |-> t]

\* bringToLife lines 82-105, from the outcome of its remote call
bringToLife(resp) ==
    IF resp.kind = "error"
    THEN Raised
    ELSE Value(Cleanup(OrElse(resp.text, FailedToGenerate)))

\* a refineApp whose catch block hands back the unchanged markup
refineAppSwallows(currentHtml, resp) ==
    IF resp.kind = "error"
    THEN Value(currentHtml)
    ELSE Value(Cleanup(OrElse(resp.text, currentHtml)))

\* refineApp lines 108-133, from the outcome of its remote call
refineApp(currentHtml, resp) ==
    IF resp.kind = "error"
    THEN Raised
    ELSE Value(Cleanup(OrElse(resp.text, currentHtml)))

\* an analyzeCode whose catch block logs and rethrows, as the other two do
analyzeCodeRethrows(code, resp) ==
    IF resp.kind = "error"
    THEN Raised
    ELSE Value(OrElse(resp.text, NoAnalysisGenerated))

\* analyzeCode lines 135-157, from the outcome of its remote call
analyzeCode(code, resp) ==
    IF resp.kind = "error"
    THEN Value(FailedToAnalyze)
    ELSE Value(OrElse(resp.text, NoAnalysisGenerated))

----------------------------------------------------------------------------
(* The parts the service functions send *)

\* an optional string argument: given, or left out
Given(t) == [given |-> TRUE, text |-> t]
NotGiven == [given |-> FALSE, text |-> << >>]

\* JavaScript truthiness of an optional string
Truthy(o) == o.given /\ o.text # << >>

ImagePng == << "i", "m", "a", "g", "e", "/", "p", "n", "g" >>

\* the arguments the callers hand over
Prompts == { << >>, << " " >>, << "a" >>, << " ", "a" >> }
FileBase64s == { NotGiven, Given(<< >>), Given(<< "Q" >>) }
MimeTypes == { NotGiven, Given(<< >>), Given(ImagePng) }
Instructions == { << >>, << "a" >> }

NoArgs ==
    [prompt |-> << >>, fileBase64 |-> NotGiven, mimeType |-> NotGiven,
     instruction |-> << >>]

\* a part is { text } or { inlineData: { data, mimeType } }
TextPart(t) ==
    [kind |-> "text", text |-> t, data |-> << >>, mimeType |-> << >>]
InlineDataPart(d, m) ==
    [kind |-> "inlineData", text |-> << >>, data |-> d, mimeType |-> m]

\* a textPart that appends the context whenever the userPrompt is not empty
BringToLifeTextUntrimmed(userPrompt, fileBase64) ==
    IF Truthy(fileBase64)
    THEN IF userPrompt # << >>
         THEN DefaultFilePrompt \o UserRequestContext \o userPrompt
         ELSE DefaultFilePrompt
    ELSE OrElse(userPrompt, DemoRequest)

\* textPart, bringToLife lines 60-69
BringToLifeText(userPrompt, fileBase64) ==
    IF Truthy(fileBase64)
    THEN IF userPrompt # << >> /\ Trim(userPrompt) # << >>
         THEN DefaultFilePrompt \o UserRequestContext \o userPrompt
         ELSE DefaultFilePrompt
    ELSE OrElse(userPrompt, DemoRequest)

\* parts, bringToLife lines 57-80
BringToLifeParts(userPrompt, fileBase64, mimeType) ==
    << TextPart(BringToLifeText(userPrompt, fileBase64)) >> \o
    ( IF Truthy(fileBase64) /\ Truthy(mimeType)
      THEN << InlineDataPart(fileBase64.text, mimeType.text) >>
      ELSE << >> )

\* parts that carry the markup trimmed
RefineAppPartsTrimmed(currentHtml, instruction) ==
    << TextPart(CurrentCodePreamble),
       TextPart(Trim(currentHtml)),
       TextPart(UserInstructionPrefix \o instruction \o ReturnFullSuffix) >>

\* parts, refineApp lines 113-117
RefineAppParts(currentHtml, instruction) ==
    << TextPart(CurrentCodePreamble),
       TextPart(currentHtml),
       TextPart(UserInstructionPrefix \o instruction \o ReturnFullSuffix) >>

\* parts, analyzeCode lines 140-143
AnalyzeCodeParts(code) ==
    << TextPart(AnalyzePreamble), TextPart(code) >>

----------------------------------------------------------------------------
(* The parent of LivePreview: the store of the current Creation and the    *)
(* generate / refine / reset handlers, after the design text               *)

NoCreation == [seq |-> 0, name |-> << >>, html |-> << >>, originalImage |-> ""]

ApplicationPdf == <<
    "a", "p", "p", "l", "i", "c", "a", "t", "i", "o", "n", "/", "p", "d", "f" >>
TextPlain == << "t", "e", "x", "t", "/", "p", "l", "a", "i", "n" >>
ImageSlash == << "i", "m", "a", "g", "e", "/" >>

\* the files the user picks or drops: name and media type
Files ==
    { [name |-> << "a", ".", "p", "n", "g" >>, type |-> ImagePng],
      [name |-> << "b", ".", "p", "d", "f" >>, type |-> ApplicationPdf],
      [name |-> << "c", ".", "t", "x", "t" >>, type |-> TextPlain],
      [name |-> << "d" >>, type |-> << >>],
      [name |-> << "e" >>, type |-> << "i", "m", "a", "g", "e" >>] }
NoFile == [name |-> << >>, type |-> << >>]

\* what the user types into the textarea of InputArea
InputPrompts == { << " " >>, << "a" >> }

\* the name the parent gives a Creation made from a prompt alone
NewCreationName == <<
    "N", "e", "w", " ", "C", "r", "e", "a", "t", "i", "o", "n" >>

\* the data URI the parent keeps of an upload
DataUrl(type) ==
    IF type = ApplicationPdf
    THEN "data:application/pdf;base64"
    ELSE "data:image;base64"

\* the generate request the parent starts from onGenerate(prompt, file)
GenerateRequest(p, file, withFile) ==
    [name |-> IF withFile THEN file.name ELSE NewCreationName,
     originalImage |-> IF withFile THEN DataUrl(file.type) ELSE "",
     prompt |-> p,
     hasFile |-> withFile,
     type |-> file.type]

\* the remote outcomes the interaction draws from: a text, or a failure (the
\* absent text is covered by the service functions on their own)
UiResponses == { TextResponse(<< "x" >>), ErrorResponse }

\* the instructions the user types into the refinement bar
RefinementPrompts == { << " " >>, << "a" >>, << "a", " " >> }

\* the isLoading prop of LivePreview
IsLoading == isGenerating

\* requests that may still store a Creation
Outstanding == Cardinality(genPending) + Cardinality(refPending)

\* CreationStore.set
StoreSet(input, html) ==
    /\ creationSeq < MaxCreations
    /\ creation' = [seq |-> creationSeq + 1, name |-> input.name,
                    html |-> html, originalImage |-> input.originalImage]
    /\ creationSeq' = creationSeq + 1

\* CreationStore.replaceHtml: name and originalImage kept, html swapped;
\* nothing to swap when the store is empty
StoreReplaceHtml(newHtml) ==
    IF creation = NoCreation
    THEN UNCHANGED <<creation, creationSeq>>
    ELSE /\ creationSeq < MaxCreations
         /\ creation' = [creation EXCEPT !.seq = creationSeq + 1,
                                         !.html = newHtml]
         /\ creationSeq' = creationSeq + 1

\* CreationStore.clear
StoreClear ==
    /\ creation' = NoCreation
    /\ UNCHANGED creationSeq

----------------------------------------------------------------------------
(* LivePreview *)

NullReport == [has |-> FALSE, text |-> << >>, of |-> 0]
Report(t, seq) == [has |-> TRUE, text |-> t, of |-> seq]

\* !analysisResult: null and the empty string are falsy
Falsy(r) == ~r.has \/ r.text = << >>

\* the effect of lines 175-186, run with the new creation prop c
ResetOnCreationChange(c) ==
    /\ showSplitView' = (c.originalImage # "")
    /\ analysisResult' = NullReport
    /\ showAnalysis' = FALSE
    /\ isAnalyzing' = FALSE
    /\ refinementPrompt' = << >>
    /\ isRefining' = FALSE
    /\ analyzeCalls' = 0
    /\ shownSince' = FALSE

PreviewUnchanged ==
    UNCHANGED <<showSplitView, analysisResult, showAnalysis, isAnalyzing,
                refinementPrompt, isRefining, analyzeCalls, shownSince>>

\* the header actions are rendered (line 277)
ActionsVisible == ~IsLoading /\ creation # NoCreation

\* the refinement bar is rendered (lines 324, 352, 379)
RefineBarVisible ==
    ~IsLoading /\ ~showAnalysis /\ creation # NoCreation /\ creation.html # << >>

\* PdfRenderer before it is mounted
PdfInit ==
    /\ pdfUrl = 0
    /\ pdfRuns = << >>
    /\ pdfCanvas = [id |-> 0, sizeOf |-> 0, pageOf |-> 0]
    /\ pdfLoading = TRUE
    /\ pdfError = "none"

UiInit ==
    /\ creation = NoCreation
    /\ creationSeq = 0
    /\ isGenerating = FALSE
    /\ genPending = {}
    /\ refPending = {}
    /\ showSplitView = FALSE
    /\ isAnalyzing = FALSE
    /\ analysisResult = NullReport
    /\ showAnalysis = FALSE
    /\ refinementPrompt = << >>
    /\ isRefining = FALSE
    /\ anaPending = {}
    /\ prompt = << >>
    /\ isDragging = FALSE
    /\ disabled = FALSE
    /\ download = << >>
    /\ PdfInit
    /\ analyzeCalls = 0
    /\ shownSince = FALSE
    /\ lastEvent = "init"

\* While a Creation is shown the focused preview covers the input area
\* (LivePreview lines 239-248), so the input area is used from the empty store.
InputReachable == creation = NoCreation

\* onGenerate(prompt, file): the parent goes in flight with the request
onGenerate(p, file, withFile) ==
    /\ creationSeq + Outstanding < MaxCreations
    /\ genPending' = genPending \cup { GenerateRequest(p, file, withFile) }
    /\ isGenerating' = TRUE
    /\ lastEvent' = "generate"

\* the rest of the state, which no handler of InputArea touches
InputLeaves ==
    /\ UNCHANGED <<creation, creationSeq, refPending, anaPending>>
    /\ PreviewUnchanged
    /\ UNCHANGED <<svcVars, exportVars, pdfVars>>

\* a handleFile that hands every file on
handleFileAnyType(file) ==
    onGenerate(prompt, file, TRUE)

\* handleFile, lines 50-56
handleFile(file) ==
    IF StartsWith(file.type, ImageSlash) \/ file.type = ApplicationPdf
    THEN onGenerate(prompt, file, TRUE)
    ELSE /\ lastEvent' = "alert"
         /\ UNCHANGED <<genPending, isGenerating>>

\* handleFileChange, lines 58-62; the file input is disabled while
\* isGenerating or disabled (line 183), so no change event reaches it then
handleFileChange(file) ==
    /\ InputReachable
    /\ ~(isGenerating \/ disabled)
    /\ handleFile(file)
    /\ UNCHANGED inputVars
    /\ InputLeaves

\* a handleDrop without the check of line 67
handleDropUnguarded(file) ==
    /\ InputReachable
    /\ isDragging' = FALSE
    /\ handleFile(file)
    /\ UNCHANGED <<prompt, disabled>>
    /\ InputLeaves

\* handleDrop, lines 64-71
handleDrop(file) ==
    /\ InputReachable
    /\ isDragging' = FALSE
    /\ IF disabled \/ isGenerating
       THEN /\ lastEvent' = "dropIgnored"
            /\ UNCHANGED <<genPending, isGenerating>>
       ELSE handleFile(file)
    /\ UNCHANGED <<prompt, disabled>>
    /\ InputLeaves

\* handleDragOver, lines 73-78
handleDragOver ==
    /\ InputReachable
    /\ isDragging' = IF ~disabled /\ ~isGenerating THEN TRUE ELSE isDragging
    /\ lastEvent' = "dragOver"
    /\ UNCHANGED <<prompt, disabled, genPending, isGenerating>>
    /\ InputLeaves

\* handleDragLeave, lines 80-83
handleDragLeave ==
    /\ InputReachable
    /\ isDragging' = FALSE
    /\ lastEvent' = "dragLeave"
    /\ UNCHANGED <<prompt, disabled, genPending, isGenerating>>
    /\ InputLeaves

\* the textarea, lines 192-197: onChange sets the prompt
TypePrompt ==
    /\ InputReachable
    /\ ~(disabled \/ isGenerating)
    /\ \E p \in InputPrompts : prompt' = p
    /\ lastEvent' = "typePrompt"
    /\ UNCHANGED <<isDragging, disabled, genPending, isGenerating>>
    /\ InputLeaves

\* a handleTextSubmit that does not look at the prompt
handleTextSubmitUnchecked ==
    /\ InputReachable
    /\ IF ~disabled /\ ~isGenerating
       THEN onGenerate(prompt, NoFile, FALSE)
       ELSE /\ lastEvent' = "submitIgnored"
            /\ UNCHANGED <<genPending, isGenerating>>
    /\ UNCHANGED inputVars
    /\ InputLeaves

\* handleTextSubmit, lines 85-89, from the send button or from Cmd+Enter
\* (handleKeyDown, lines 91-95)
handleTextSubmit ==
    /\ InputReachable
    /\ IF Trim(prompt) # << >> /\ ~disabled /\ ~isGenerating
       THEN onGenerate(prompt, NoFile, FALSE)
       ELSE /\ lastEvent' = "submitIgnored"
            /\ UNCHANGED <<genPending, isGenerating>>
    /\ UNCHANGED inputVars
    /\ InputLeaves

\* the parent changes the disabled prop
SetDisabled ==
    /\ disabled' = ~disabled
    /\ lastEvent' = "setDisabled"
    /\ UNCHANGED <<prompt, isDragging, genPending, isGenerating>>
    /\ InputLeaves

\* the generate request settled: a new Creation is stored, or none is
GenerateSettles ==
    /\ \E input \in genPending : \E resp \in UiResponses :
        LET outcome == bringToLife(resp)
        IN  IF outcome.raised
            THEN /\ UNCHANGED <<creation, creationSeq>>
                 /\ PreviewUnchanged
                 /\ lastEvent' = "generateFailed"
            ELSE /\ StoreSet(input, outcome.text)
                 /\ ResetOnCreationChange(input)
                 /\ lastEvent' = "generated"
    /\ genPending' = {}
    /\ isGenerating' = FALSE
    /\ UNCHANGED <<refPending, anaPending>>
    /\ UNCHANGED otherVars

\* onReset (lines 256, 310): the store is cleared
Reset ==
    /\ StoreClear
    /\ IF creation # NoCreation
       THEN ResetOnCreationChange(NoCreation)
       ELSE PreviewUnchanged
    /\ lastEvent' = "reset"
    /\ UNCHANGED <<isGenerating, genPending, refPending, anaPending>>
    /\ UNCHANGED otherVars

\* the compare button (lines 288-291)
ToggleSplitView ==
    /\ ActionsVisible
    /\ creation.originalImage # ""
    /\ showSplitView' = ~showSplitView
    /\ lastEvent' = "preview"
    /\ UNCHANGED <<analysisResult, showAnalysis, isAnalyzing, refinementPrompt,
                   isRefining, analyzeCalls, shownSince, anaPending>>
    /\ UNCHANGED appVars
    /\ UNCHANGED otherVars

\* handleToggleAnalysis, lines 202-215, up to the await
handleToggleAnalysis ==
    /\ ActionsVisible
    /\ IF showAnalysis
       THEN /\ showAnalysis' = FALSE
            /\ UNCHANGED <<isAnalyzing, anaPending, analyzeCalls, shownSince>>
       ELSE /\ showAnalysis' = TRUE
            /\ shownSince' = TRUE
            /\ IF Falsy(analysisResult) /\ ~isAnalyzing
               THEN /\ isAnalyzing' = TRUE
                    /\ anaPending' = anaPending \cup
                           { [forSeq |-> creation.seq, code |-> creation.html] }
                    /\ analyzeCalls' = analyzeCalls + 1
               ELSE UNCHANGED <<isAnalyzing, anaPending, analyzeCalls>>
    /\ lastEvent' = "preview"
    /\ UNCHANGED <<showSplitView, analysisResult, refinementPrompt, isRefining>>
    /\ UNCHANGED appVars
    /\ UNCHANGED otherVars

\* handleToggleAnalysis, lines 215-221, after the await
AnalysisSettles(call, resp) ==
    /\ call \in anaPending
    /\ LET outcome == analyzeCode(call.code, resp)
       IN  analysisResult' =
               Report(IF outcome.raised THEN FailedToRetrieve ELSE outcome.text,
                      call.forSeq)
    /\ isAnalyzing' = FALSE
    /\ anaPending' = anaPending \ { call }
    /\ lastEvent' = "preview"
    /\ UNCHANGED <<showSplitView, showAnalysis, refinementPrompt, isRefining,
                   analyzeCalls, shownSince>>
    /\ UNCHANGED appVars
    /\ UNCHANGED otherVars

\* the refinement input, lines 429-437
TypeRefinement ==
    /\ RefineBarVisible
    /\ ~isRefining
    /\ \E p \in RefinementPrompts : refinementPrompt' = p
    /\ lastEvent' = "preview"
    /\ UNCHANGED <<showSplitView, analysisResult, showAnalysis, isAnalyzing,
                   isRefining, analyzeCalls, shownSince, anaPending>>
    /\ UNCHANGED appVars
    /\ UNCHANGED otherVars

\* handleRefinementSubmit, lines 225-229, up to the await; the parent reads
\* the current html and issues the refine call
handleRefinementSubmit ==
    /\ RefineBarVisible
    /\ Trim(refinementPrompt) # << >>
    /\ ~isRefining
    /\ creationSeq < MaxCreations
    /\ isRefining' = TRUE
    /\ refPending' = refPending \cup
           { [forSeq |-> creation.seq, html |-> creation.html,
              instruction |-> refinementPrompt] }
    /\ lastEvent' = "submit"
    /\ UNCHANGED <<showSplitView, analysisResult, showAnalysis, isAnalyzing,
                   refinementPrompt, analyzeCalls, shownSince, anaPending>>
    /\ UNCHANGED <<creation, creationSeq, isGenerating, genPending>>
    /\ UNCHANGED otherVars

\* a continuation whose failure path leaves isRefining as it is
RefineSettlesNoFinally(call, resp) ==
    /\ call \in refPending
    /\ LET outcome == refineApp(call.html, resp)
       IN  IF outcome.raised
           THEN /\ UNCHANGED <<creation, creationSeq>>
                /\ PreviewUnchanged
                /\ lastEvent' = "refineFailed"
           ELSE /\ StoreReplaceHtml(outcome.text)
                /\ IF creation # NoCreation
                   THEN ResetOnCreationChange(creation)
                   ELSE /\ refinementPrompt' = << >>
                        /\ isRefining' = FALSE
                        /\ UNCHANGED <<showSplitView, analysisResult,
                                       showAnalysis, isAnalyzing,
                                       analyzeCalls, shownSince>>
                /\ lastEvent' = "refined"
    /\ refPending' = refPending \ { call }
    /\ UNCHANGED <<isGenerating, genPending, anaPending>>
    /\ UNCHANGED otherVars

\* handleRefinementSubmit, lines 229-235, after the await
RefineSettles(call, resp) ==
    /\ call \in refPending
    /\ LET outcome == refineApp(call.html, resp)
       IN  IF outcome.raised
           THEN \* catch and finally: the typed instruction stays
                /\ UNCHANGED <<creation, creationSeq>>
                /\ isRefining' = FALSE
                /\ UNCHANGED <<showSplitView, analysisResult, showAnalysis,
                               isAnalyzing, refinementPrompt, analyzeCalls,
                               shownSince>>
                /\ lastEvent' = "refineFailed"
           ELSE /\ StoreReplaceHtml(outcome.text)
                /\ IF creation # NoCreation
                   THEN ResetOnCreationChange(creation)
                   ELSE /\ refinementPrompt' = << >>
                        /\ isRefining' = FALSE
                        /\ UNCHANGED <<showSplitView, analysisResult,
                                       showAnalysis, isAnalyzing,
                                       analyzeCalls, shownSince>>
                /\ lastEvent' = "refined"
    /\ refPending' = refPending \ { call }
    /\ UNCHANGED <<isGenerating, genPending, anaPending>>
    /\ UNCHANGED otherVars

Next ==
    \/ TypePrompt
    \/ \E file \in Files : handleFileChange(file)
    \/ \E file \in Files : handleDrop(file)
    \/ handleTextSubmit
    \/ GenerateSettles
    \/ Reset
    \/ ToggleSplitView
    \/ handleToggleAnalysis
    \/ \E call \in anaPending : \E resp \in UiResponses :
           AnalysisSettles(call, resp)
    \/ TypeRefinement
    \/ handleRefinementSubmit
    \/ \E call \in refPending : \E resp \in UiResponses :
           RefineSettles(call, resp)

\* ---- export (handleExport, lines 188-200)

\* the capital E with acute accent, U+00C9, and its small form, U+00E9
CapitalEAcute == "E-ACUTE"
SmallEAcute == "e-acute"

UpperCaseLetters == <<
    "A", "B", "C", "D", "E", "F", "G", "H", "I", "J", "K", "L", "M",
    "N", "O", "P", "Q", "R", "S", "T", "U", "V", "W", "X", "Y", "Z" >>
LowerCaseLetters == <<
    "a", "b", "c", "d", "e", "f", "g", "h", "i", "j", "k", "l", "m",
    "n", "o", "p", "q", "r", "s", "t", "u", "v", "w", "x", "y", "z" >>
Digits == { "0", "1", "2", "3", "4", "5", "6", "7", "8", "9" }

Range(seq) == { seq[i] : i \in 1..Len(seq) }

\* the characters the names are made of
NameChars == { "C", "o", "9", "!", CapitalEAcute }

RECURSIVE NamesUpTo(_)
NamesUpTo(n) ==
    IF n = 0 THEN { << >> }
    ELSE LET shorter == NamesUpTo(n - 1)
         IN  shorter \cup { << c >> \o t : c \in NameChars, t \in shorter }

CoffeeShop == <<
    "C", "o", "f", "f", "e", "e", " ", "S", "h", "o", "p", "!", "!" >>

\* the names of the Creations handed to the export
Names == NamesUpTo(MaxNameLen) \cup { CoffeeShop }

ArtifactSuffix == <<
    "_", "a", "r", "t", "i", "f", "a", "c", "t", ".", "j", "s", "o", "n" >>

\* String.prototype.toLowerCase, character by character
ToLowerCaseChar(c) ==
    IF c \in Range(UpperCaseLetters)
    THEN LowerCaseLetters[CHOOSE i \in 1..Len(UpperCaseLetters) :
                              UpperCaseLetters[i] = c]
    ELSE IF c = CapitalEAcute THEN SmallEAcute ELSE c
ToLowerCase(t) == [i \in 1..Len(t) |-> ToLowerCaseChar(t[i])]

\* the pattern without the i flag: capital letters are replaced too
ReplaceNonAlnumCaseSensitive(t) ==
    [i \in 1..Len(t) |->
        IF t[i] \in Range(LowerCaseLetters) \cup Digits THEN t[i] ELSE "_"]

\* replace(/[^a-z0-9]/gi, '_'): with the i flag the class takes the letters
\* of both cases; every other character becomes one underscore
ReplaceNonAlnum(t) ==
    [i \in 1..Len(t) |->
        IF t[i] \in Range(LowerCaseLetters) \cup Range(UpperCaseLetters)
                       \cup Digits
        THEN t[i]
        ELSE "_"]

\* the download attribute of line 195
ExportFileName(name) == ToLowerCase(ReplaceNonAlnum(name)) \o ArtifactSuffix

\* the parent stores a Creation under a name
CreationArrives ==
    /\ creation = NoCreation
    /\ \E name \in Names :
           StoreSet([name |-> name, originalImage |-> ""], << "x" >>)
    /\ ResetOnCreationChange([originalImage |-> ""])
    /\ download' = << >>
    /\ lastEvent' = "arrived"
    /\ UNCHANGED <<isGenerating, genPending, refPending, anaPending>>
    /\ UNCHANGED <<svcVars, inputVars, pdfVars>>

\* handleExport, lines 188-200
handleExport ==
    /\ IF creation = NoCreation
       THEN /\ UNCHANGED download
            /\ lastEvent' = "exportIgnored"
       ELSE /\ download' = ExportFileName(creation.name)
            /\ lastEvent' = "export"
    /\ UNCHANGED appVars
    /\ PreviewUnchanged
    /\ UNCHANGED anaPending
    /\ UNCHANGED <<svcVars, inputVars, pdfVars>>

\* the export on its own, over the names of the Creations
ExportNext ==
    \/ CreationArrives
    \/ handleExport
    \/ Reset

\* ---- PdfRenderer (lines 55-148)

\* what the runs of renderPdf and the mounting leave alone
PdfLeaves ==
    UNCHANGED <<svcVars, appVars, inputVars, previewVars, ghostVars, exportVars>>

\* canvasRef.current: the canvas is rendered while the component is mounted
\* and shows no error (lines 126-133, 142-145)
CanvasPresent == pdfUrl # 0 /\ pdfError = "none"

\* the cleanup of line 121-123 for the run of the current dataUrl
CancelCurrent(runs) ==
    IF pdfUrl = 0 THEN runs ELSE [runs EXCEPT ![pdfUrl].cancelled = TRUE]

\* the effect body, lines 61-119, up to its first await: a new run starts,
\* with the pdf library there or missing; seenError is the error state the
\* component has when the effect runs
renderPdf(runs, seenError) ==
    /\ Len(runs) < MaxRenders
    /\ pdfUrl' = Len(runs) + 1
    /\ \E libraryThere \in BOOLEAN :
        IF libraryThere
        THEN /\ pdfRuns' = Append(runs, [pc |-> "getDocument",
                                         cancelled |-> FALSE, canvas |-> 0])
             /\ pdfLoading' = TRUE
             /\ pdfError' = seenError
        ELSE /\ pdfRuns' = Append(runs, [pc |-> "done",
                                         cancelled |-> FALSE, canvas |-> 0])
             /\ pdfError' = "noLibrary"
             /\ pdfLoading' = FALSE

\* the component is mounted with a dataUrl: fresh state, a fresh canvas
PdfMount ==
    /\ pdfUrl = 0
    /\ renderPdf(pdfRuns, "none")
    /\ pdfCanvas' = [id |-> pdfCanvas.id + 1, sizeOf |-> 0, pageOf |-> 0]
    /\ PdfLeaves

\* the dataUrl prop changes: the cleanup cancels the run, the effect runs again
PdfChangeUrl ==
    /\ pdfUrl # 0
    /\ renderPdf(CancelCurrent(pdfRuns), pdfError)
    /\ UNCHANGED pdfCanvas
    /\ PdfLeaves

\* the component is unmounted: the cleanup cancels the run
PdfUnmount ==
    /\ pdfUrl # 0
    /\ pdfUrl' = 0
    /\ pdfRuns' = CancelCurrent(pdfRuns)
    /\ UNCHANGED <<pdfCanvas, pdfLoading, pdfError>>
    /\ PdfLeaves

\* the catch block, lines 110-116, of run k
PdfCatch(k) ==
    /\ pdfRuns' = [pdfRuns EXCEPT ![k].pc = "done"]
    /\ IF ~pdfRuns[k].cancelled
       THEN pdfError' = "renderFailed" /\ pdfLoading' = FALSE
       ELSE UNCHANGED <<pdfError, pdfLoading>>
    /\ UNCHANGED pdfCanvas

\* lines 73-75: loadingTask.promise of run k settled
GetDocumentSettles(k, ok) ==
    /\ pdfRuns[k].pc = "getDocument"
    /\ IF ~ok
       THEN PdfCatch(k)
       ELSE /\ pdfRuns' = [pdfRuns EXCEPT
                              ![k].pc = IF pdfRuns[k].cancelled
                                        THEN "done" ELSE "getPage"]
            /\ UNCHANGED <<pdfCanvas, pdfLoading, pdfError>>
    /\ UNCHANGED pdfUrl
    /\ PdfLeaves

\* lines 78-108: pdf.getPage(1) of run k settled; the canvas is sized and
\* page.render is started
GetPageSettles(k, ok) ==
    /\ pdfRuns[k].pc = "getPage"
    /\ IF ~ok
       THEN PdfCatch(k)
       ELSE IF ~CanvasPresent
            THEN /\ pdfRuns' = [pdfRuns EXCEPT ![k].pc = "done"]
                 /\ UNCHANGED <<pdfCanvas, pdfLoading, pdfError>>
            ELSE /\ pdfRuns' = [pdfRuns EXCEPT ![k].pc = "render",
                                               ![k].canvas = pdfCanvas.id]
                 /\ pdfCanvas' = [pdfCanvas EXCEPT !.sizeOf = k]
                 /\ UNCHANGED <<pdfLoading, pdfError>>
    /\ UNCHANGED pdfUrl
    /\ PdfLeaves

\* lines 108-109: page.render of run k settled; the page is drawn on the
\* canvas the run took at line 80
RenderSettles(k, ok) ==
    /\ pdfRuns[k].pc = "render"
    /\ IF ~ok
       THEN PdfCatch(k)
       ELSE /\ pdfRuns' = [pdfRuns EXCEPT ![k].pc = "done"]
            /\ pdfCanvas' = IF pdfRuns[k].canvas = pdfCanvas.id
                            THEN [pdfCanvas EXCEPT !.pageOf = k]
                            ELSE pdfCanvas
            /\ pdfLoading' = IF ~pdfRuns[k].cancelled THEN FALSE ELSE pdfLoading
            /\ UNCHANGED pdfError
    /\ UNCHANGED pdfUrl
    /\ PdfLeaves

\* one step of run k
PdfRunStep(k, ok) ==
    \/ GetDocumentSettles(k, ok)
    \/ GetPageSettles(k, ok)
    \/ RenderSettles(k, ok)

\* PdfRenderer on its own
PdfNext ==
    \/ PdfMount
    \/ PdfChangeUrl
    \/ PdfUnmount
    \/ \E k \in 1..Len(pdfRuns) : \E ok \in BOOLEAN : GetDocumentSettles(k, ok)
    \/ \E k \in 1..Len(pdfRuns) : \E ok \in BOOLEAN : GetPageSettles(k, ok)
    \/ \E k \in 1..Len(pdfRuns) : \E ok \in BOOLEAN : RenderSettles(k, ok)

\* InputArea on its own: every handler, the disabled prop, and the parent
\* that settles the request and closes the preview
InputNext ==
    \/ TypePrompt
    \/ \E file \in Files : handleFileChange(file)
    \/ \E file \in Files : handleDrop(file)
    \/ handleDragOver
    \/ handleDragLeave
    \/ handleTextSubmit
    \/ SetDisabled
    \/ GenerateSettles
    \/ Reset

----------------------------------------------------------------------------
(* One invocation of a service function, step by step *)

SvcInit ==
    /\ svcOp = "none"
    /\ svcPc = "idle"
    /\ svcHtml = << >>
    /\ svcCalls = 0
    /\ svcResp = NoResponse
    /\ svcRet = NoValue
    /\ svcArgs = NoArgs
    /\ svcParts = << >>

\* the invocation ends as the function's outcome says
SvcEnds(resp, outcome) ==
    /\ svcResp' = resp
    /\ svcRet' = outcome
    /\ svcPc' = IF outcome.raised THEN "raised" ELSE "returned"

\* bringToLife lines 56-94: the parts are built and the remote call is issued
BringToLifeCall ==
    /\ svcPc = "idle"
    /\ \E userPrompt \in Prompts : \E fileBase64 \in FileBase64s :
       \E mimeType \in MimeTypes :
        /\ svcArgs' = [NoArgs EXCEPT !.prompt = userPrompt,
                                     !.fileBase64 = fileBase64,
                                     !.mimeType = mimeType]
        /\ svcParts' = BringToLifeParts(userPrompt, fileBase64, mimeType)
    /\ svcOp' = "bringToLife"
    /\ svcPc' = "awaiting"
    /\ svcHtml' = << >>
    /\ svcCalls' = 1
    /\ svcResp' = NoResponse
    /\ svcRet' = NoValue
    /\ UNCHANGED uiVars

\* a bringToLife that issues the remote call once more after a failure
BringToLifeSettlesRetrying ==
    /\ svcOp = "bringToLife" /\ svcPc = "awaiting"
    /\ \E resp \in Responses :
        IF resp.kind = "error" /\ svcCalls = 1
        THEN /\ svcCalls' = 2
             /\ svcResp' = resp
             /\ UNCHANGED <<svcPc, svcRet>>
        ELSE /\ SvcEnds(resp, bringToLife(resp))
             /\ UNCHANGED svcCalls
    /\ UNCHANGED <<svcOp, svcHtml, svcArgs, svcParts>>
    /\ UNCHANGED uiVars

\* bringToLife lines 94-105: the remote call settled
BringToLifeSettles ==
    /\ svcOp = "bringToLife" /\ svcPc = "awaiting"
    /\ \E resp \in Responses : SvcEnds(resp, bringToLife(resp))
    /\ UNCHANGED <<svcOp, svcHtml, svcCalls, svcArgs, svcParts>>
    /\ UNCHANGED uiVars

\* refineApp lines 108-124
RefineAppCall ==
    /\ svcPc = "idle"
    /\ \E html \in Htmls : \E instruction \in Instructions :
        /\ svcHtml' = html
        /\ svcArgs' = [NoArgs EXCEPT !.instruction = instruction]
        /\ svcParts' = RefineAppParts(html, instruction)
    /\ svcOp' = "refineApp"
    /\ svcPc' = "awaiting"
    /\ svcCalls' = 1
    /\ svcResp' = NoResponse
    /\ svcRet' = NoValue
    /\ UNCHANGED uiVars

\* refineApp lines 124-132: the remote call settled
RefineAppSettles ==
    /\ svcOp = "refineApp" /\ svcPc = "awaiting"
    /\ \E resp \in Responses : SvcEnds(resp, refineApp(svcHtml, resp))
    /\ UNCHANGED <<svcOp, svcHtml, svcCalls, svcArgs, svcParts>>
    /\ UNCHANGED uiVars

\* analyzeCode lines 135-150
AnalyzeCodeCall ==
    /\ svcPc = "idle"
    /\ \E code \in Htmls :
        /\ svcHtml' = code
        /\ svcArgs' = NoArgs
        /\ svcParts' = AnalyzeCodeParts(code)
    /\ svcOp' = "analyzeCode"
    /\ svcPc' = "awaiting"
    /\ svcCalls' = 1
    /\ svcResp' = NoResponse
    /\ svcRet' = NoValue
    /\ UNCHANGED uiVars

\* analyzeCode lines 150-156: the remote call settled
AnalyzeCodeSettles ==
    /\ svcOp = "analyzeCode" /\ svcPc = "awaiting"
    /\ \E resp \in Responses : SvcEnds(resp, analyzeCode(svcHtml, resp))
    /\ UNCHANGED <<svcOp, svcHtml, svcCalls, svcArgs, svcParts>>
    /\ UNCHANGED uiVars

\* the caller has taken the result; the next invocation may start
SvcSettled ==
    /\ svcPc \in { "returned", "raised" }
    /\ svcOp' = "none"
    /\ svcPc' = "idle"
    /\ svcHtml' = << >>
    /\ svcCalls' = 0
    /\ svcResp' = NoResponse
    /\ svcRet' = NoValue
    /\ svcArgs' = NoArgs
    /\ svcParts' = << >>
    /\ UNCHANGED uiVars

SvcNext ==
    \/ BringToLifeCall
    \/ BringToLifeSettles
    \/ RefineAppCall
    \/ RefineAppSettles
    \/ AnalyzeCodeCall
    \/ AnalyzeCodeSettles
    \/ SvcSettled

\* the state after construction: nothing stored, nothing in flight
Init == UiInit /\ SvcInit

\* the interaction of the user, the parent and LivePreview
Spec == Init /\ [][Next]_vars

\* the service functions on their own, over every remote outcome
SpecService == Init /\ [][SvcNext]_vars

\* InputArea and the generate requests it starts
SpecInput == Init /\ [][InputNext]_vars

\* the export of Creations of every name
SpecExport == Init /\ [][ExportNext]_vars

\* PdfRenderer through mounts, changes of dataUrl and unmounts
SpecPdf == Init /\ [][PdfNext]_vars

----------------------------------------------------------------------------
(* Claims about the service functions, checked under SpecService *)

Returned(op) == svcOp = op /\ svcPc = "returned"

\* C1: for every remote response text, bringToLife returns a non-empty
\* string, and for an empty remote text it returns the fallback placeholder.
C1_GenerateNeverReturnsEmpty ==
    Returned("bringToLife") =>
        /\ svcRet.text # << >>
        /\ (svcResp.text = << >> => svcRet.text = FailedToGenerate)

\* C2: for every non-empty currentHtml and every remote response text,
\* refineApp never returns an empty string when it returns a value.
C2_RefineNeverReturnsEmpty ==
    (Returned("refineApp") /\ svcHtml # << >>) => svcRet.text # << >>

\* C3: when the remote response to refineApp is empty, the returned value
\* is the input currentHtml, character for character.
C3_EmptyResponseReturnsCurrentHtml ==
    (Returned("refineApp") /\ svcResp.text = << >>) => svcRet.text = svcHtml

\* C7: analyzeCode never raises; it returns a non-empty string: the remote
\* text when there is one, the fixed message when the remote text is empty,
\* the failure message when the remote call failed.
C7_AnalyzeNeverRaises ==
    svcOp = "analyzeCode" =>
        /\ svcPc # "raised"
        /\ svcPc = "returned" =>
            /\ svcRet.has
            /\ svcRet.text # << >>
            /\ svcResp.kind = "error" => svcRet.text = FailedToAnalyze
            /\ (svcResp.kind # "error" /\ svcResp.text = << >>) =>
                   svcRet.text = NoAnalysisGenerated
            /\ svcResp.text # << >> => svcRet.text = svcResp.text

\* the remote call of an analyzeCode invocation failed and the invocation settled
C7_Witness ==
    svcOp = "analyzeCode" /\ svcResp.kind = "error" /\ svcPc # "awaiting"

\* C9: an invocation of bringToLife makes exactly one remote call; when the
\* call fails the failure is raised, without a retry and without a value.
C9_OneCallNoRetry ==
    svcOp = "bringToLife" =>
        /\ svcCalls = 1
        /\ svcResp.kind = "error" => (svcPc = "raised" /\ svcRet = Raised)

\* the remote call of a bringToLife invocation failed
C9_Witness ==
    svcOp = "bringToLife" /\ svcResp.kind = "error"

\* the text bringToLife or refineApp returned: the cleanup applied once
CleanedOnce == Returned("bringToLife") \/ Returned("refineApp")

EndsInFence(t) == StartsWith(t, Fence) \/ EndsWith(t, Fence)

\* C10 as stated: the cleanup is idempotent for every text, so cleaning the
\* cleaned text again changes nothing.
C10_CleanupIdempotent ==
    CleanedOnce => Cleanup(svcRet.text) = svcRet.text

\* C10 as amended: cleaning the cleaned text again changes nothing when the
\* cleaned text neither begins nor ends with a fence.
C10_CleanupIdempotentOnSingleFences ==
    (CleanedOnce /\ ~EndsInFence(svcRet.text)) =>
        Cleanup(svcRet.text) = svcRet.text

\* the cleanup removed a fence from a remote text and left no fence at either end
C10_Witness ==
    /\ CleanedOnce
    /\ svcResp.text # << >>
    /\ svcRet.text # svcResp.text
    /\ svcRet.text # << >>
    /\ ~EndsInFence(svcRet.text)

\* C11: for a response that is the opening fence with the html tag, an
\* inner text and the closing fence, the cleanup returns the inner text
\* verbatim, for every inner text, also one that begins with spaces or line
\* breaks, and also when a line break follows the closing fence.
C11_FencedBlockGivesInner ==
    Returned("bringToLife") =>
        \A inner \in Inners : \A tail \in ClosingTails :
            svcResp.text = FencedBlock(inner, tail) => svcRet.text = inner

\* C13: the instruction text of bringToLife is the default file instruction
\* alone for a file with a blank prompt, the default instruction followed by
\* the context line and the prompt for a file with a non-blank prompt, the
\* prompt itself without a file, and the demo request without a file and
\* with an empty prompt.
C13_InstructionText ==
    svcOp = "bringToLife" =>
        LET userPrompt == svcArgs.prompt
            attached == Truthy(svcArgs.fileBase64)
            first == svcParts[1]
        IN  /\ first.kind = "text"
            /\ (attached /\ Trim(userPrompt) = << >>) =>
                   first.text = DefaultFilePrompt
            /\ (attached /\ Trim(userPrompt) # << >>) =>
                   first.text = DefaultFilePrompt \o UserRequestContext \o userPrompt
            /\ (~attached /\ userPrompt # << >>) => first.text = userPrompt
            /\ (~attached /\ userPrompt = << >>) => first.text = DemoRequest

\* bringToLife was called with a file and a prompt of one space
C13_Witness ==
    /\ svcOp = "bringToLife"
    /\ Truthy(svcArgs.fileBase64)
    /\ svcArgs.prompt = << " " >>
    /\ svcParts[1].text = DefaultFilePrompt

\* C14: every refineApp call sends three text parts in this order: the
\* preamble, currentHtml as it was given, the instruction inside the
\* template; and currentHtml is the same before and after the call.
C14_RefineSendsThreeParts ==
    [][svcOp' = "refineApp" =>
          /\ svcParts' =
                 << TextPart(CurrentCodePreamble),
                    TextPart(svcHtml'),
                    TextPart(UserInstructionPrefix \o svcArgs'.instruction
                                 \o ReturnFullSuffix) >>
          /\ svcOp = "refineApp" =>
                 (svcHtml' = svcHtml /\ svcParts' = svcParts)]_vars

\* a refineApp call returned for a markup that begins or ends with a space
\* or a line break, with an instruction typed
C14_Witness ==
    /\ Returned("refineApp")
    /\ Trim(svcHtml) # svcHtml
    /\ svcArgs.instruction # << >>
    /\ Len(svcParts) = 3

----------------------------------------------------------------------------
(* Claims about the interaction, checked under Spec *)

\* C4: a report computed for a previous Creation's html is never held for
\* the current Creation, in every ordering of toggles, replacements and
\* completions of analyzeCode calls.
C4_ReportIsOfCurrentCreation ==
    (creation # NoCreation /\ analysisResult.has) =>
        analysisResult.of = creation.seq

\* C5: while the Creation stays the same, the analysis toggles trigger
\* exactly one analyzeCode call: never a second one, and one as soon as the
\* analysis has been requested.
C5_ExactlyOneAnalyzeCall ==
    creation # NoCreation =>
        /\ analyzeCalls <= 1
        /\ shownSince => analyzeCalls = 1

\* a refine response is stale when the Creation it was issued for is no
\* longer the current one
IsStale(call) == creation = NoCreation \/ creation.seq # call.forSeq

\* C6: a refine response that arrives after the Creation it was issued for
\* was reset or replaced is discarded: it does not change the current Creation.
C6_StaleResponseDiscarded ==
    [][\A call \in refPending : \A resp \in UiResponses :
         (RefineSettles(call, resp) /\ IsStale(call)) =>
             creation' = creation]_vars

\* C8: when the remote call of a refine fails, refineApp raises, and the
\* failed refine leaves the Creation unchanged, keeps the typed instruction
\* and returns isRefining to false.
C8_FailedRefineKeepsCreation ==
    [][\A call \in refPending :
         RefineSettles(call, ErrorResponse) =>
             /\ refineApp(call.html, ErrorResponse) = Raised
             /\ creation' = creation
             /\ refinementPrompt' = refinementPrompt
             /\ isRefining' = FALSE]_vars

\* a refine of the displayed Creation has just failed, the instruction still typed
C8_Witness ==
    /\ lastEvent = "refineFailed"
    /\ creation # NoCreation
    /\ Trim(refinementPrompt) # << >>
    /\ ~isRefining

\* C12: at most one refine request is in flight at any time.
C12_AtMostOneRefineInFlight ==
    Cardinality(refPending) <= 1

\* C16: when the remote call of a refine or of an analysis settles, with
\* success or with failure, the flag of that operation is false; isRefining
\* and isAnalyzing are never true with no call of their kind in flight.
C16_FlagFalseOnceSettled ==
    [][/\ \A call \in refPending : \A resp \in UiResponses :
              RefineSettles(call, resp) => isRefining' = FALSE
       /\ \A call \in anaPending : \A resp \in UiResponses :
              AnalysisSettles(call, resp) => isAnalyzing' = FALSE
       /\ isRefining' => refPending' # {}
       /\ isAnalyzing' => anaPending' # {}]_vars

\* an analysis has settled and then a refine of the same Creation failed:
\* both flags are false and nothing is in flight
C16_Witness ==
    /\ lastEvent = "refineFailed"
    /\ analysisResult.has
    /\ ~isRefining /\ ~isAnalyzing
    /\ refPending = {} /\ anaPending = {}

\* C19: a generate request without a file carries a prompt that is not
\* blank, and a refine request carries an instruction that is not blank.
C19_NoBlankSubmission ==
    /\ \A request \in genPending :
           ~request.hasFile => Trim(request.prompt) # << >>
    /\ \A call \in refPending : Trim(call.instruction) # << >>

\* the send button was used on a prompt of white space and nothing was sent
C19_Witness ==
    /\ lastEvent = "submitIgnored"
    /\ prompt # << >> /\ Trim(prompt) = << >>
    /\ ~isGenerating /\ ~disabled
    /\ genPending = {}

----------------------------------------------------------------------------
(* Claims about InputArea, checked under SpecInput *)

\* C17: while isGenerating or disabled is true no handler of InputArea
\* calls onGenerate: a request is started only from a state where both are
\* false and no request is in flight.
C17_NoGenerateWhileBusy ==
    [][(lastEvent' = "generate" \/ ~(genPending' \subseteq genPending)) =>
           (~isGenerating /\ ~disabled /\ genPending = {})]_vars

\* a file was dropped while the request was in flight, and no second request
\* was started
C17_Witness ==
    /\ lastEvent = "dropIgnored"
    /\ isGenerating
    /\ Cardinality(genPending) = 1

\* the media types the claim accepts among those of Files
AcceptedTypes == { ImagePng, ApplicationPdf }

\* C18: a file is handed to onGenerate only when its media type is an image
\* type or application/pdf; for any other type no request is started and the
\* alert is shown.
C18_OnlyImagesAndPdf ==
    [][/\ \A request \in genPending' :
              request.hasFile => request.type \in AcceptedTypes
       /\ \A file \in Files :
              (handleFileChange(file) \/ handleDrop(file)) =>
                  /\ lastEvent' = "generate" => file.type \in AcceptedTypes
                  /\ (file.type \notin AcceptedTypes
                         /\ ~disabled /\ ~isGenerating) =>
                         (lastEvent' = "alert" /\ UNCHANGED appVars)]_vars

\* a file of another type was refused with the alert
C18_Witness ==
    /\ lastEvent = "alert"
    /\ ~isGenerating
    /\ genPending = {}

----------------------------------------------------------------------------
(* Claims about the export, checked under SpecExport *)

\* what the claim makes of one character of the name
ExportedChar(c) ==
    IF c \in Range(UpperCaseLetters) \cup Range(LowerCaseLetters)
    THEN ToLowerCaseChar(c)
    ELSE IF c \in Digits THEN c ELSE "_"

CoffeeShopArtifact == <<
    "c", "o", "f", "f", "e", "e", "_", "s", "h", "o", "p", "_", "_", "_",
    "a", "r", "t", "i", "f", "a", "c", "t", ".", "j", "s", "o", "n" >>

\* C15: the export names the file after the Creation: each letter in lower
\* case, each digit kept, each other character one underscore, then
\* _artifact.json; Coffee Shop!! gives coffee_shop___artifact.json; with no
\* Creation the export downloads nothing.
C15_ExportFileName ==
    [][handleExport =>
          IF creation = NoCreation
          THEN download' = download
          ELSE LET name == creation.name
               IN  /\ Len(download') = Len(name) + Len(ArtifactSuffix)
                   /\ \A i \in 1..Len(name) :
                          download'[i] = ExportedChar(name[i])
                   /\ SubSeq(download', Len(name) + 1, Len(download'))
                          = ArtifactSuffix
                   /\ name = CoffeeShop => download' = CoffeeShopArtifact]_vars

\* the Creation named Coffee Shop!! has been exported
C15_Witness ==
    /\ lastEvent = "export"
    /\ creation.name = CoffeeShop
    /\ download = CoffeeShopArtifact

----------------------------------------------------------------------------
(* Claims about PdfRenderer, checked under SpecPdf *)

\* C20: once the run started for a dataUrl has been cancelled, no step of
\* that run writes the canvas (its size or the page drawn) or sets loading
\* or error, at whichever await the run was when it was cancelled.
C20_CancelledRunWritesNothing ==
    [][\A k \in 1..Len(pdfRuns) : \A ok \in BOOLEAN :
          (pdfRuns[k].cancelled /\ PdfRunStep(k, ok)) =>
              UNCHANGED <<pdfCanvas, pdfLoading, pdfError>>]_vars

----------------------------------------------------------------------------
(* Claim about the payload of bringToLife, checked under SpecService *)

\* the payload carries an inlineData part
HasInlinePart(parts) ==
    \E k \in 1..Len(parts) : parts[k].kind = "inlineData"

\* the text is the default file instruction, alone or followed by the
\* context line and the prompt
BuiltFromFilePrompt(text, userPrompt) ==
    \/ text = DefaultFilePrompt
    \/ text = DefaultFilePrompt \o UserRequestContext \o userPrompt

\* C21: for every (prompt, fileBase64, mimeType) passed to bringToLife the
\* payload contains the inline attachment part exactly when the text part is
\* built from the default file instruction: the file instruction never goes
\* without the file, and the file never goes with a text-only instruction.
C21_InlinePartIffFilePrompt ==
    svcOp = "bringToLife" =>
        ( HasInlinePart(svcParts)
            <=> BuiltFromFilePrompt(svcParts[1].text, svcArgs.prompt) )

====
